---------------------------- MODULE Spec2Model ----------------------------
(***************************************************************************)
(* Model of OriginBuilder (.tito/lib/origin/builder/__init__.py):          *)
(*   _get_build_version    - the version resolver                          *)
(*   _setup_test_specfile  - the test-build spec-file mutator              *)
(*                                                                         *)
(* Strings are sequences of one-character strings, so that slicing,        *)
(* concatenation, str(), split/join and sed's line substitution are        *)
(* computed the way the code computes them.  The Python value None is the  *)
(* one-element sequence None, which no program string equals.              *)
(***************************************************************************)
EXTENDS Naturals, Sequences, FiniteSets

(* ------------------------------ bounds -------------------------------- *)

\* how many times the driver invokes _setup_test_specfile
MaxCalls == 2
\* longest dependency manifest (number of entries in Deps)
MaxDeps == 2
\* largest commit count drawn as an input
MaxCommitCount == 105

(* -------------------------- string helpers ---------------------------- *)

None == <<"<None>">>

\* in the call log, the return value of a call that raised instead
Raised == <<"<raised>">>

\* Python truthiness of an optional string: None and "" are false
Truthy(s) == s # None /\ s # <<>>

\* s[n:]
SliceFrom(s, n) == IF n >= Len(s) THEN <<>> ELSE SubSeq(s, n + 1, Len(s))

\* s[:n]
SliceTo(s, n) == IF n >= Len(s) THEN s ELSE SubSeq(s, 1, n)

StartsWith(s, p) == Len(s) >= Len(p) /\ SubSeq(s, 1, Len(p)) = p

Digit(d) == <<"0", "1", "2", "3", "4", "5", "6", "7", "8", "9">>[d + 1]

RECURSIVE IntToStr(_)
\* str(n) for a non-negative int
IntToStr(n) == IF n < 10 THEN <<Digit(n)>>
               ELSE IntToStr(n \div 10) \o <<Digit(n % 10)>>

IsSpace(c) == c \in {" ", "\t", "\n"}

RECURSIVE SplitWs(_, _, _)
\* str.split(): the maximal runs of non-whitespace characters, in order.
\* i is the read position, cur the word being read.
SplitWs(s, i, cur) ==
    IF i > Len(s) THEN (IF cur = <<>> THEN <<>> ELSE <<cur>>)
    ELSE IF IsSpace(s[i])
         THEN (IF cur = <<>> THEN <<>> ELSE <<cur>>) \o SplitWs(s, i + 1, <<>>)
         ELSE SplitWs(s, i + 1, Append(cur, s[i]))

Split(s) == SplitWs(s, 1, <<>>)

RECURSIVE Join(_, _)
\* sep.join(parts)
Join(sep, parts) ==
    IF parts = <<>> THEN <<>>
    ELSE IF Len(parts) = 1 THEN parts[1]
    ELSE parts[1] \o sep \o Join(sep, Tail(parts))

\* where the two characters backslash, n stand in s
LineBreaks(s) == {i \in 1..(Len(s) - 1) : s[i] = "\\" /\ s[i + 1] = "n"}

RECURSIVE SedLines(_)
\* The lines sed writes for a replacement text: in the replacement the two
\* characters backslash, n stand for a line break. (The texts here hold no
\* other backslash.)
SedLines(s) ==
    IF LineBreaks(s) = {} THEN <<s>>
    ELSE LET i == CHOOSE j \in LineBreaks(s) : \A k \in LineBreaks(s) : j <= k
         IN <<SubSeq(s, 1, i - 1)>> \o SedLines(SliceFrom(s, i + 1))

RECURSIVE Flatten(_)
Flatten(ss) == IF ss = <<>> THEN <<>> ELSE ss[1] \o Flatten(Tail(ss))

(* ----------------------------- literals ------------------------------- *)

Dash == <<"-">>
VPrefix == <<"v">>
GitInfix == <<".", "g", "i", "t", ".">>
Dot == <<".">>
Space == <<" ">>
BackslashN == <<"\\", "n">>
ReleaseKey == <<"R", "e", "l", "e", "a", "s", "e", ":">>
VersionKey == <<"V", "e", "r", "s", "i", "o", "n", ":">>
LdflagsPattern == <<"%", "%", "g", "l", "o", "b", "a", "l", " ", "l", "d", "f", "l", "a", "g", "s", " ">>
MarkerPattern == <<"#", "#", "#", " ", "A", "U", "T", "O", "-", "B", "U", "N", "D", "L", "E", "D", "-", "G", "E", "N", "-", "E", "N", "T", "R", "Y", "-", "P", "O", "I", "N", "T">>
ProvidesHead == <<"P", "r", "o", "v", "i", "d", "e", "s", ":", " ", "b", "u", "n", "d", "l", "e", "d", "(", "g", "o", "l", "a", "n", "g", "(">>
ProvidesMid == <<")", ")", " ", "=", " ">>
LdflagsBanner == <<"L", "D", "F", "L", "A", "G", "S", ":", ":">>
Warning == <<"W", "A", "R", "N", "I", "N", "G">>

\* the length of the short commit id
ShaLen == 7

(* ------------------------------ inputs -------------------------------- *)

ProjectNames == {<<"p">>, <<"o", "s">>}

Versions == {<<"1", ".", "2">>, <<"2", ".", "0", "-", "1">>}

\* the build_tag argument: absent, empty, "<project_name>-<version>", or a
\* string of another shape (the code does not validate it)
TagArgs(pn) == {None, <<>>, <<"x">>} \cup {pn \o Dash \o v : v \in Versions}

CommitIds == {<<"a", "b", "c", "d", "e", "f", "1", "2", "3", "4", "5", "6", "7">>,
              <<"0", "1", "2", "3", "4", "5", "6", "7", "8", "9", "a", "b", "c">>}

CommitCounts == {0, 42, MaxCommitCount}

\* the descriptor, one string per line; the second has its ldflags
\* declaration written with a single percent sign
Descriptors ==
    { << <<"V", "e", "r", "s", "i", "o", "n", ":", " ", "1", ".", "2">>,
         <<"R", "e", "l", "e", "a", "s", "e", ":", " ", "1">>,
         <<"%", "%", "g", "l", "o", "b", "a", "l", " ", "l", "d", "f", "l", "a", "g", "s", " ", "-", "X", " ", "o", "l", "d">>,
         MarkerPattern,
         <<"%", "b", "u", "i", "l", "d">> >>,
      << <<"V", "e", "r", "s", "i", "o", "n", ":", " ", "3", ".", "0">>,
         <<"R", "e", "l", "e", "a", "s", "e", ":", " ", "2">>,
         <<"%", "g", "l", "o", "b", "a", "l", " ", "l", "d", "f", "l", "a", "g", "s", " ", "-", "X", " ", "o", "l", "d">>,
         MarkerPattern,
         <<"%", "b", "u", "i", "l", "d">> >> }

\* what the linker-flags command can print when it exits with status 0
LdflagsOutputs ==
    { <<>>,
      <<" ", " ">>,
      <<"-", "X", " ", "a", "=", "b">>,
      <<" ", " ", "-", "X", " ", "a", "=", "b", " ", " ", " ", "-", "X", " ", "c", " ", " ">> }

DepEntries ==
    { [ImportPath |-> <<"a", "/", "b">>, Rev |-> <<"d", "e", "a", "d">>],
      [ImportPath |-> <<"c", "/", "d">>, Rev |-> <<"c", "a", "f", "e">>] }

\* the Deps lists a well-formed Godeps.json can hold
Manifests == UNION {[1..n -> DepEntries] : n \in 0..MaxDeps}

\* the ways reading ./Godeps/Godeps.json can raise: open() on a missing file,
\* json.load on malformed text, a missing Deps / ImportPath / Rev key
ManifestErrors == {"IOError", "ValueError", "KeyError"}

(* ------------------------------- state -------------------------------- *)

VARIABLES
    project_name,             \* self.project_name
    tag_arg,                  \* the build_tag the builder was constructed with
    build_tag,                \* self.build_tag
    test,                     \* self.test
    offline,                  \* self.offline
    git_commit_id,            \* self.git_commit_id
    commit_count,             \* self.commit_count
    display_version,          \* self.display_version
    start_dir_spec,           \* the descriptor found in start_dir, a sequence of lines
    spec_file,                \* the content of self.spec_file, the working copy
    build_version,            \* self.build_version
    ran_setup_test_specfile,  \* self.ran_setup_test_specfile
    pc,                       \* the position of the (single) thread of control
    outcome,                  \* "running", "ok" or the error that ended the build
    bv,                       \* _get_build_version's local build_version
    ldflags,                  \* _setup_test_specfile's local ldflags
    depdict,                  \* what reading Godeps.json gave: its Deps, or the error
    provides_list,            \* _setup_test_specfile's local provides_list
    calls,                    \* the collaborator calls made so far, in order
    stderr,                   \* what was written to sys.stderr
    stdout,                   \* what was printed
    setupCalls                \* invocations of _setup_test_specfile so far

ctx == <<project_name, tag_arg, test, offline, git_commit_id, commit_count,
         display_version, start_dir_spec>>

vars == <<project_name, tag_arg, build_tag, test, offline, git_commit_id,
          commit_count, display_version, start_dir_spec, spec_file,
          build_version, ran_setup_test_specfile, pc, outcome, bv, ldflags,
          depdict, provides_list, calls, stderr, stdout, setupCalls>>

\* one collaborator call: the function, its arguments, what it returned
Call(fn, args, ret) == [fn |-> fn, args |-> args, ret |-> ret]

Called(fn) == \E i \in 1..Len(calls) : calls[i].fn = fn

NumCalls(fn) == Cardinality({i \in 1..Len(calls) : calls[i].fn = fn})

Init ==
    /\ project_name \in ProjectNames
    /\ tag_arg \in TagArgs(project_name)
    /\ build_tag = tag_arg
    /\ test \in BOOLEAN
    /\ offline \in BOOLEAN
    /\ git_commit_id \in CommitIds
    /\ commit_count \in CommitCounts
    /\ display_version \in Versions
    /\ start_dir_spec \in Descriptors
    /\ spec_file = start_dir_spec
    /\ build_version = None
    /\ ran_setup_test_specfile = FALSE
    /\ pc = "get_build_version"
    /\ outcome = "running"
    /\ bv = None
    /\ ldflags = None
    /\ depdict = [status |-> "unread", Deps |-> <<>>]
    /\ provides_list = <<>>
    /\ calls = <<>>
    /\ stderr = <<>>
    /\ stdout = <<>>
    /\ setupCalls = 0

\* an uncaught exception ends the build
Raise(err) == pc' = "aborted" /\ outcome' = err

(* ----------------------- _get_build_version --------------------------- *)

\* a slice that forgets the "-" after the project name
VersionFromTag_NoDash(tag, pn) == SliceFrom(tag, Len(pn))

\* line 104: self.build_tag[len(self.project_name + "-"):]
VersionFromTag(tag, pn) == SliceFrom(tag, Len(pn \o Dash))

\* a synthesized tag without its "v"
SynthTag_NoPrefix(v) == v

\* line 115: "v{0}".format(build_version)
SynthTag(v) == VPrefix \o v

\* the test-build exemption left out
FailsWithoutTag_Always(t) == TRUE

\* line 108: whether a build with no tag at all is an error
FailsWithoutTag(t) == ~t

\* the verification left out
NeedsTagCheck_Never(t) == FALSE

\* line 117: whether the tag is verified
NeedsTagCheck(t) == ~t

\* find_spec_file / get_spec_version_and_release: "<version>-<release>" of
\* the descriptor in start_dir
RECURSIVE LStrip(_)
LStrip(s) == IF s # <<>> /\ IsSpace(s[1]) THEN LStrip(Tail(s)) ELSE s

FieldValue(doc, key) ==
    LET i == CHOOSE j \in 1..Len(doc) : StartsWith(doc[j], key)
    IN LStrip(SliceFrom(doc[i], Len(key)))

SpecVersionAndRelease(doc) ==
    FieldValue(doc, VersionKey) \o Dash \o FieldValue(doc, ReleaseKey)

\* lines 103-104: an explicit build tag
GBV_FromTag ==
    /\ pc = "get_build_version"
    /\ Truthy(build_tag)
    /\ bv' = VersionFromTag(build_tag, project_name)
    /\ pc' = "gbv_check"
    /\ UNCHANGED <<ctx, build_tag, spec_file, build_version,
                   ran_setup_test_specfile, outcome, ldflags, depdict, provides_list,
                   calls, stderr, stdout, setupCalls>>

\* lines 105-107: no build tag, ask source control for the latest one
GBV_Lookup ==
    /\ pc = "get_build_version"
    /\ ~Truthy(build_tag)
    /\ \E r \in Versions \cup {None} :
         /\ bv' = r
         /\ pc' = IF r = None THEN "gbv_no_tag" ELSE "gbv_set_tag"
         /\ calls' = Append(calls,
                Call("get_latest_tagged_version", <<project_name>>, r))
    /\ UNCHANGED <<ctx, build_tag, spec_file, build_version,
                   ran_setup_test_specfile, outcome, ldflags, depdict, provides_list,
                   stderr, stdout, setupCalls>>

\* lines 108-110: error_out is called but the module never imports or
\* defines it, so the call raises NameError
GBV_ErrorOut ==
    /\ pc = "gbv_no_tag"
    /\ FailsWithoutTag(test)
    /\ Raise("NameError")
    /\ UNCHANGED <<ctx, build_tag, spec_file, build_version,
                   ran_setup_test_specfile, bv, ldflags, depdict, provides_list,
                   calls, stderr, stdout, setupCalls>>

\* lines 111-114: an untagged test build warns and reads the descriptor
GBV_Fallback ==
    /\ pc = "gbv_no_tag"
    /\ ~FailsWithoutTag(test)
    /\ stderr' = Append(stderr, Warning)
    /\ bv' = SpecVersionAndRelease(start_dir_spec)
    /\ calls' = calls \o <<Call("find_spec_file", <<>>, None),
                           Call("get_spec_version_and_release", <<>>, bv')>>
    /\ pc' = "gbv_set_tag"
    /\ UNCHANGED <<ctx, build_tag, spec_file, build_version,
                   ran_setup_test_specfile, outcome, ldflags, depdict, provides_list,
                   stdout, setupCalls>>

\* line 115
GBV_SetTag ==
    /\ pc = "gbv_set_tag"
    /\ build_tag' = SynthTag(bv)
    /\ pc' = "gbv_check"
    /\ UNCHANGED <<ctx, spec_file, build_version, ran_setup_test_specfile,
                   outcome, bv, ldflags, depdict, provides_list, calls, stderr, stdout,
                   setupCalls>>

\* lines 117-118: check_tag_exists returns, or ends the build when the tag
\* is not there
GBV_CheckTag ==
    /\ pc = "gbv_check"
    /\ NeedsTagCheck(test)
    /\ \E found \in BOOLEAN :
         IF found
         THEN /\ calls' = Append(calls,
                     Call("check_tag_exists", <<build_tag, offline>>, None))
              /\ pc' = "gbv_return"
              /\ outcome' = outcome
         ELSE /\ calls' = Append(calls,
                     Call("check_tag_exists", <<build_tag, offline>>, Raised))
              /\ Raise("ConfigurationError")
    /\ UNCHANGED <<ctx, build_tag, spec_file, build_version,
                   ran_setup_test_specfile, bv, ldflags, depdict, provides_list,
                   stderr, stdout, setupCalls>>

\* line 117, a test build: nothing to verify
GBV_SkipCheck ==
    /\ pc = "gbv_check"
    /\ ~NeedsTagCheck(test)
    /\ pc' = "gbv_return"
    /\ UNCHANGED <<ctx, build_tag, spec_file, build_version,
                   ran_setup_test_specfile, outcome, bv, ldflags,
                   depdict, provides_list, calls, stderr, stdout, setupCalls>>

\* line 119: the value returned becomes the builder's build_version
GBV_Return ==
    /\ pc = "gbv_return"
    /\ build_version' = bv
    /\ pc' = "idle"
    /\ UNCHANGED <<ctx, build_tag, spec_file, ran_setup_test_specfile,
                   outcome, bv, ldflags, depdict, provides_list, calls, stderr, stdout,
                   setupCalls>>

GetBuildVersion ==
    \/ GBV_FromTag
    \/ GBV_Lookup
    \/ GBV_ErrorOut
    \/ GBV_Fallback
    \/ GBV_SetTag
    \/ GBV_CheckTag
    \/ GBV_SkipCheck
    \/ GBV_Return


(* ---------------------- _setup_test_specfile -------------------------- *)

\* a guard that forgets the ran_setup_test_specfile flag
ShouldSetup_NoFlag(t, ran) == t

\* line 42: the guard of the whole method
ShouldSetup(t, ran) == t /\ ~ran

\* line 47: self.git_commit_id[:7]
ShortSha(id) == SliceTo(id, ShaLen)

\* line 48: "{0}-{1}".format(self.project_name, self.display_version)
FullName(pn, dv) == pn \o Dash \o dv

\* a suffix that carries the whole commit id
VersionSuffix_FullSha(count, id) == GitInfix \o IntToStr(count) \o Dot \o id

\* lines 91-94: ".git." + str(self.commit_count) + "." + str(self.git_commit_id[:7])
VersionSuffix(count, id) == GitInfix \o IntToStr(count) \o Dot \o SliceTo(id, ShaLen)

\* munge_specfile (tito.common): sed appends ".git.<count>.<sha>" to the
\* value of every Release: line that has one
MungeSpecfile(doc, sha, count) ==
    [i \in 1..Len(doc) |->
        IF StartsWith(doc[i], ReleaseKey) /\ LStrip(SliceFrom(doc[i], Len(ReleaseKey))) # <<>>
        THEN doc[i] \o GitInfix \o IntToStr(count) \o Dot \o SliceTo(sha, ShaLen)
        ELSE doc[i]]

\* line 63: ' '.join([ldflag.strip() for ldflag in ldflags.split()])
NormalizeLdflags(out) == Join(Space, Split(out))

\* lines 61-67: sed -i 's|^%%global ldflags .*$|%%global ldflags <flags>|'.
\* str.format leaves the doubled percent signs as they are, so the pattern
\* and the replacement both carry two.
SedLdflags(doc, flags) ==
    [i \in 1..Len(doc) |->
        IF StartsWith(doc[i], LdflagsPattern) THEN LdflagsPattern \o flags
        ELSE doc[i]]

\* the two format arguments swapped
ProvidesLine_Swapped(dep) == ProvidesHead \o dep.Rev \o ProvidesMid \o dep.ImportPath

\* lines 78-83: "Provides: bundled(golang({0})) = {1}".format(bdep[0], bdep[1])
ProvidesLine(dep) == ProvidesHead \o dep.ImportPath \o ProvidesMid \o dep.Rev

\* lines 71-83
ProvidesList(deps) == [i \in 1..Len(deps) |-> ProvidesLine(deps[i])]

\* line 86: '\\n'.join(provides_list)
ProvidesText(pl) == Join(BackslashN, pl)

\* lines 84-89: sed -i 's|^### AUTO-BUNDLED-GEN-ENTRY-POINT|<text>|'. Only the
\* marker is replaced; what follows it on the line stays after the text.
SedProvides(doc, text) ==
    Flatten([i \in 1..Len(doc) |->
        IF StartsWith(doc[i], MarkerPattern)
        THEN LET ls == SedLines(text)
             IN [ls EXCEPT ![Len(ls)] = @ \o SliceFrom(doc[i], Len(MarkerPattern))]
        ELSE <<doc[i]>>])

\* line 42, guard false: the method returns at once
STS_Skip ==
    /\ pc = "idle"
    /\ setupCalls < MaxCalls
    /\ ~ShouldSetup(test, ran_setup_test_specfile)
    /\ setupCalls' = setupCalls + 1
    /\ UNCHANGED <<ctx, build_tag, spec_file, build_version,
                   ran_setup_test_specfile, pc, outcome, bv, ldflags, depdict,
                   provides_list, calls, stderr, stdout>>

\* lines 42-55: guard true, munge the release field
STS_Munge ==
    /\ pc = "idle"
    /\ setupCalls < MaxCalls
    /\ ShouldSetup(test, ran_setup_test_specfile)
    /\ setupCalls' = setupCalls + 1
    /\ spec_file' = MungeSpecfile(spec_file, ShortSha(git_commit_id), commit_count)
    /\ calls' = Append(calls,
           Call("munge_specfile",
                <<ShortSha(git_commit_id), commit_count,
                  FullName(project_name, display_version)>>, None))
    /\ pc' = "sts_ldflags"
    /\ UNCHANGED <<ctx, build_tag, build_version, ran_setup_test_specfile,
                   outcome, bv, ldflags, depdict, provides_list, stderr, stdout>>

\* lines 58-60: the linker-flags command exits with status 0 and prints out
STS_Ldflags ==
    /\ pc = "sts_ldflags"
    /\ \E out \in LdflagsOutputs :
         /\ ldflags' = out
         /\ calls' = Append(calls, Call("run_command", <<"ldflags">>, out))
         /\ stdout' = Append(stdout, LdflagsBanner \o out)
    /\ pc' = "sts_update_ldflags"
    /\ UNCHANGED <<ctx, build_tag, spec_file, build_version,
                   ran_setup_test_specfile, outcome, bv, depdict,
                   provides_list, stderr, setupCalls>>

\* line 59: run_command raises when the command exits with a non-zero status
STS_LdflagsFail ==
    /\ pc = "sts_ldflags"
    /\ calls' = Append(calls, Call("run_command", <<"ldflags">>, Raised))
    /\ Raise("BuildToolError")
    /\ UNCHANGED <<ctx, build_tag, spec_file, build_version,
                   ran_setup_test_specfile, bv, ldflags, depdict,
                   provides_list, stderr, stdout, setupCalls>>

\* lines 61-67
STS_UpdateLdflags ==
    /\ pc = "sts_update_ldflags"
    /\ spec_file' = SedLdflags(spec_file, NormalizeLdflags(ldflags))
    /\ calls' = Append(calls, Call("run_command", <<"sed ldflags">>, <<>>))
    /\ pc' = "sts_godeps"
    /\ UNCHANGED <<ctx, build_tag, build_version, ran_setup_test_specfile,
                   outcome, bv, ldflags, depdict, provides_list, stderr,
                   stdout, setupCalls>>

\* lines 71-83: the manifest is there and well formed
STS_Godeps ==
    /\ pc = "sts_godeps"
    /\ \E deps \in Manifests :
         /\ depdict' = [status |-> "ok", Deps |-> deps]
         /\ provides_list' = ProvidesList(deps)
    /\ pc' = "sts_update_provides"
    /\ UNCHANGED <<ctx, build_tag, spec_file, build_version,
                   ran_setup_test_specfile, outcome, bv, ldflags, calls,
                   stderr, stdout, setupCalls>>

\* the exception swallowed: the method goes on with no provenance lines
STS_GodepsFail_Swallowed ==
    /\ pc = "sts_godeps"
    /\ \E err \in ManifestErrors :
         depdict' = [status |-> err, Deps |-> <<>>]
    /\ provides_list' = <<>>
    /\ pc' = "sts_update_provides"
    /\ UNCHANGED <<ctx, build_tag, spec_file, build_version,
                   ran_setup_test_specfile, outcome, bv, ldflags, calls,
                   stderr, stdout, setupCalls>>

\* lines 72-76: open, json.load or a key lookup raises; nothing catches it
STS_GodepsFail ==
    /\ pc = "sts_godeps"
    /\ \E err \in ManifestErrors :
         /\ depdict' = [status |-> err, Deps |-> <<>>]
         /\ Raise(err)
    /\ UNCHANGED <<ctx, build_tag, spec_file, build_version,
                   ran_setup_test_specfile, bv, ldflags, provides_list, calls,
                   stderr, stdout, setupCalls>>

\* lines 84-89
STS_UpdateProvides ==
    /\ pc = "sts_update_provides"
    /\ spec_file' = SedProvides(spec_file, ProvidesText(provides_list))
    /\ calls' = Append(calls, Call("run_command", <<"sed provides">>, <<>>))
    /\ stdout' = Append(stdout, <<>>)
    /\ pc' = "sts_append"
    /\ UNCHANGED <<ctx, build_tag, build_version, ran_setup_test_specfile,
                   outcome, bv, ldflags, depdict, provides_list, stderr,
                   setupCalls>>

\* lines 91-94
STS_AppendVersion ==
    /\ pc = "sts_append"
    /\ build_version' = build_version \o VersionSuffix(commit_count, git_commit_id)
    /\ pc' = "sts_set_ran"
    /\ UNCHANGED <<ctx, build_tag, spec_file, ran_setup_test_specfile,
                   outcome, bv, ldflags, depdict, provides_list, calls, stderr,
                   stdout, setupCalls>>

\* line 95
STS_SetRan ==
    /\ pc = "sts_set_ran"
    /\ ran_setup_test_specfile' = TRUE
    /\ pc' = "idle"
    /\ UNCHANGED <<ctx, build_tag, spec_file, build_version, outcome, bv,
                   ldflags, depdict, provides_list, calls, stderr, stdout,
                   setupCalls>>

SetupTestSpecfile ==
    \/ STS_Skip
    \/ STS_Munge
    \/ STS_Ldflags
    \/ STS_LdflagsFail
    \/ STS_UpdateLdflags
    \/ STS_Godeps
    \/ STS_GodepsFail
    \/ STS_UpdateProvides
    \/ STS_AppendVersion
    \/ STS_SetRan

(* --------------------------- specification ---------------------------- *)

Next == GetBuildVersion \/ SetupTestSpecfile

Spec == Init /\ [][Next]_vars


(* ------------------------------ claims -------------------------------- *)

\* _get_build_version has returned (only its return sets build_version)
Returned == build_version # None

\* _get_build_version ended in an error
ResolverFailed == pc = "aborted" /\ build_version = None

\* the latest-tag lookup was made and found nothing
NoTagFound ==
    \E i \in 1..Len(calls) :
        calls[i].fn = "get_latest_tagged_version" /\ calls[i].ret = None

\* the build_tag argument has the form "<project_name>-<version>"
WellFormedTag == tag_arg # None /\ StartsWith(tag_arg, project_name \o <<"-">>)

\* the build_tag argument is absent, empty, or "<project_name>-<version>"
SaneTag == ~Truthy(tag_arg) \/ WellFormedTag

\* the position of the provenance marker line in the original descriptor
MarkerIndex == CHOOSE i \in 1..Len(start_dir_spec) : start_dir_spec[i] = MarkerPattern

\* C1: a non-test build given build_tag "<project_name>-<version>" never
\* makes the latest-tag lookup, never changes build_tag, and what it returns
\* is <version>: the tag is the project name, "-", and the returned version.
C1_ExplicitTag ==
    (~test /\ WellFormedTag) =>
        /\ ~Called("get_latest_tagged_version")
        /\ build_tag = tag_arg
        /\ (Returned => tag_arg = project_name \o <<"-">> \o build_version)

C1_Witness == ~test /\ WellFormedTag /\ Returned /\ pc = "idle"

\* C2: a non-test build with no build_tag whose latest-tag lookup found V
\* returns V, and build_tag is then "v" followed by V.
C2_LatestTag ==
    \A i \in 1..Len(calls) :
        (/\ ~test
         /\ ~Truthy(tag_arg)
         /\ calls[i].fn = "get_latest_tagged_version"
         /\ calls[i].ret # None
         /\ Returned)
        => /\ build_version = calls[i].ret
           /\ build_tag = <<"v">> \o calls[i].ret

C2_Witness ==
    /\ ~test /\ ~Truthy(tag_arg) /\ Returned
    /\ Called("get_latest_tagged_version")
    /\ build_tag = <<"v", "2", ".", "0", "-", "1">>

\* C3 (as claimed): a non-test build with no build_tag whose lookup found
\* nothing ends in a ConfigurationError, returns no version, leaves the
\* descriptor as it was, and neither reads the descriptor nor checks a tag.
C3_NoTagIsConfigurationError ==
    (~test /\ ~Truthy(tag_arg) /\ NoTagFound /\ pc # "gbv_no_tag") =>
        /\ pc = "aborted"
        /\ outcome = "ConfigurationError"
        /\ ~Returned
        /\ spec_file = start_dir_spec
        /\ ~Called("find_spec_file")
        /\ ~Called("get_spec_version_and_release")
        /\ ~Called("check_tag_exists")

\* C4: a test build with no build_tag whose lookup found nothing does not
\* fail in the resolver; it writes the warning to stderr and returns
\* "<version>-<release>" as the descriptor in start_dir declares them.
C4_UntaggedTestBuild ==
    (test /\ ~Truthy(tag_arg) /\ NoTagFound) =>
        /\ ~ResolverFailed
        /\ (pc # "gbv_no_tag" => stderr = <<Warning>>)
        /\ (Returned =>
              \E i, j \in 1..Len(start_dir_spec) : \E k \in 1..Len(bv) :
                  /\ bv[k] = "-"
                  /\ start_dir_spec[i] = VersionKey \o <<" ">> \o SubSeq(bv, 1, k - 1)
                  /\ start_dir_spec[j] = ReleaseKey \o <<" ">> \o SubSeq(bv, k + 1, Len(bv)))

C4_Witness ==
    /\ test /\ ~Truthy(tag_arg) /\ NoTagFound /\ Returned
    /\ bv = <<"3", ".", "0", "-", "2">>

\* C5: a non-test build reaches its return only with check_tag_exists called
\* last, on the final build_tag and the offline flag, and not raising; a check
\* that raises ends the build in a ConfigurationError with nothing returned;
\* a test build never calls check_tag_exists.
C5_TagVerified ==
    /\ (~test /\ pc = "gbv_return") =>
          /\ calls # <<>>
          /\ calls[Len(calls)].fn = "check_tag_exists"
          /\ calls[Len(calls)].args = <<build_tag, offline>>
          /\ calls[Len(calls)].ret = None
    /\ (~test /\ Returned) =>
          \E i \in 1..Len(calls) :
              /\ calls[i].fn = "check_tag_exists"
              /\ calls[i].args = <<build_tag, offline>>
              /\ calls[i].ret = None
    /\ \A i \in 1..Len(calls) :
          (calls[i].fn = "check_tag_exists" /\ calls[i].ret = Raised) =>
              /\ pc = "aborted"
              /\ outcome = "ConfigurationError"
              /\ ~Returned
    /\ test => ~Called("check_tag_exists")

C5_Witness ==
    /\ ~test /\ Returned /\ offline
    /\ NumCalls("check_tag_exists") = 1

\* C6: _setup_test_specfile invoked on a non-test build, or with
\* ran_setup_test_specfile already true, changes nothing: not the descriptor,
\* not build_version, not the flag, and no collaborator is called and nothing
\* is printed. (The invocation itself shows only in setupCalls.)
C6_NoOp ==
    [][(/\ pc = "idle"
        /\ setupCalls' # setupCalls
        /\ (~test \/ ran_setup_test_specfile))
       => UNCHANGED <<spec_file, build_version, ran_setup_test_specfile,
                      build_tag, calls, stdout, stderr, pc, outcome>>]_vars

C6_Witness ==
    /\ test /\ ran_setup_test_specfile /\ setupCalls = 2 /\ pc = "idle"
    /\ NumCalls("munge_specfile") = 1

\* C7: once ran_setup_test_specfile is true, build_version is the returned
\* version followed by exactly one ".git.<commit_count>.<first 7 characters
\* of the commit id>", however many calls follow; until the suffix is
\* appended build_version is the returned version and the flag is false.
C7_VersionSuffix ==
    /\ ran_setup_test_specfile =>
          build_version = bv \o <<".", "g", "i", "t", ".">> \o IntToStr(commit_count)
                             \o <<".">> \o SubSeq(git_commit_id, 1, 7)
    /\ (/\ ran_setup_test_specfile
        /\ commit_count = 42
        /\ git_commit_id = <<"a", "b", "c", "d", "e", "f", "1", "2", "3", "4", "5", "6", "7">>)
       => build_version = bv \o <<".", "g", "i", "t", ".", "4", "2", ".",
                                   "a", "b", "c", "d", "e", "f", "1">>
    /\ (Returned /\ pc \in {"idle", "sts_ldflags", "sts_update_ldflags", "sts_godeps",
                            "sts_update_provides", "sts_append", "aborted"}
        /\ ~ran_setup_test_specfile)
       => build_version = bv
    /\ pc = "sts_set_ran" => ~ran_setup_test_specfile /\ build_version # bv

C7_Witness ==
    /\ ran_setup_test_specfile /\ setupCalls = 2 /\ pc = "idle"
    /\ commit_count = 42
    /\ git_commit_id = <<"a", "b", "c", "d", "e", "f", "1", "2", "3", "4", "5", "6", "7">>

\* the linker-flags command failed: it raised, or it printed nothing
LdflagsFailed ==
    \E i \in 1..Len(calls) :
        /\ calls[i].fn = "run_command"
        /\ calls[i].args = <<"ldflags">>
        /\ calls[i].ret \in {Raised, <<>>}

\* C8 (as claimed): when the linker-flags command fails, by a non-zero exit
\* or by empty output, the ldflags line is never rewritten to an empty value,
\* and the call ends in a BuildToolError with ran_setup_test_specfile false
\* and build_version without a suffix.
C8_LdflagsFailureIsError ==
    (SaneTag /\ LdflagsFailed) =>
        /\ \A i \in 1..Len(spec_file) : spec_file[i] # LdflagsPattern
        /\ pc \in {"idle", "aborted"} =>
              /\ outcome = "BuildToolError"
              /\ ~ran_setup_test_specfile
              /\ build_version = bv

C10_ProvidesBlock ==
    (depdict.status = "ok" /\ pc \in {"sts_append", "sts_set_ran", "idle"}) =>
        LET deps == depdict.Deps
            n == Len(deps)
            m == MarkerIndex
        IN  IF n = 0
            THEN /\ Len(spec_file) = Len(start_dir_spec)
                 /\ spec_file[m] = <<>>
            ELSE /\ Len(spec_file) = Len(start_dir_spec) - 1 + n
                 /\ \A i \in 1..n :
                       spec_file[m + i - 1] =
                           ProvidesHead \o deps[i].ImportPath \o ProvidesMid \o deps[i].Rev
                 /\ \A i \in (m + 1)..Len(start_dir_spec) :
                       spec_file[i + n - 1] = start_dir_spec[i]

C10_Witness ==
    /\ depdict.status = "ok" /\ ran_setup_test_specfile /\ pc = "idle"
    /\ Len(depdict.Deps) = 2
    /\ depdict.Deps[1].ImportPath = <<"a", "/", "b">>
    /\ depdict.Deps[2].ImportPath = <<"c", "/", "d">>
    /\ spec_file[MarkerIndex + 1] =
          ProvidesHead \o <<"c", "/", "d">> \o ProvidesMid \o <<"c", "a", "f", "e">>


=============================================================================
